---- MODULE Spec2Model ----
(***************************************************************************)
(* ML-NIDS backend: the detector supervisor (monitorController), the       *)
(* Settings collection it starts the detector from, and the DetectionLog   *)
(* collection fed by the ingestion endpoint.                               *)
(*                                                                         *)
(* Conventions.                                                            *)
(*   - A JS value that may be null/undefined is a sequence of length at    *)
(*     most one: <<>> is null/undefined, <<v>> is the value v.             *)
(*   - A JS Number is kept in tenths (fixed point, one decimal): 5 is 0.5, *)
(*     30 is 3, 100 is 10.                                                 *)
(*   - The network interface is a sequence of one-character strings, so    *)
(*     that String.prototype.trim is computed and not assumed.             *)
(*   - Node runs one handler (or one continuation after an await) at a     *)
(*     time: every action below is one such run to completion.             *)
(***************************************************************************)
EXTENDS Integers, Sequences, FiniteSets, TLC

VARIABLES
    monitorProcess,   \* the module-level handle: 0 is null, c > 0 is child c
    children,         \* every child process spawned so far, by spawn order
    requests,         \* every POST /monitor/start so far, by arrival order
    settingsStore,    \* the Settings collection, in insertion order
    clock,            \* the source of updatedAt
    detections,       \* the DetectionLog collection, in insertion order
    stats,            \* the counts read so far for the GET /detections/stats
                      \* in flight, <<>> when there is none
    last              \* the handler or event that ran last, with what it
                      \* answered or wrote to the console

vars == <<monitorProcess, children, requests, settingsStore, clock,
          detections, stats, last>>

(***************************************************************************)
(* Bounds of the model.                                                    *)
(***************************************************************************)
\* POST /monitor/start requests
MaxStarts == 2
\* Settings records saved under Spec and SpecOutput
MaxSettings == 1
\* DetectionLog records stored under SpecOutput and SpecFrame
MaxEvents == 1
\* Settings records saved under SpecSettings
MaxSaved == 2
\* DetectionLog records stored under SpecAnalytics
MaxStored == 3
\* DetectionLog records stored under SpecStats
MaxCounted == 2
\* DetectionLog records of the detector's earlier reports under SpecEnsemble
Backlog == 49
\* DetectionLog records stored after those under SpecEnsemble
MaxRecent == 3

(***************************************************************************)
(* JS helpers.                                                             *)
(***************************************************************************)
Nullish(x) == x = <<>>

Coalesce(x, d) == IF x = <<>> THEN d ELSE x[1]

Whitespace == {" ", "\t"}

RECURSIVE TrimStart(_)
TrimStart(s) ==
    IF s # <<>> /\ Head(s) \in Whitespace THEN TrimStart(Tail(s)) ELSE s

RECURSIVE TrimEnd(_)
TrimEnd(s) ==
    IF s # <<>> /\ s[Len(s)] \in Whitespace
    THEN TrimEnd(SubSeq(s, 1, Len(s) - 1))
    ELSE s

Trim(s) == TrimEnd(TrimStart(s))

Digit(d) ==
    CASE d = 0 -> "0" [] d = 1 -> "1" [] d = 2 -> "2" [] d = 3 -> "3"
      [] d = 4 -> "4" [] d = 5 -> "5" [] d = 6 -> "6" [] d = 7 -> "7"
      [] d = 8 -> "8" [] d = 9 -> "9"

RECURSIVE IntToString(_)
IntToString(n) ==
    IF n < 10 THEN Digit(n) ELSE IntToString(n \div 10) \o Digit(n % 10)

\* String(x) of a non-negative Number kept in tenths
String(x) ==
    IF x % 10 = 0
    THEN IntToString(x \div 10)
    ELSE IntToString(x \div 10) \o "." \o Digit(x % 10)

\* Array.prototype.join(",")
RECURSIVE Join(_)
Join(a) ==
    IF a = <<>> THEN ""
    ELSE IF Len(a) = 1 THEN a[1]
    ELSE a[1] \o "," \o Join(Tail(a))

(***************************************************************************)
(* Settings.                                                               *)
(***************************************************************************)
eth0 == <<"e", "t", "h", "0">>

DefaultThreshold == 5
DefaultVoteK == 30
DefaultFlowTimeout == 100

\* BlankInterface without the trim: only undefined, null and "" are blank
BlankInterfaceNoTrim(iface) ==
    \/ Nullish(iface)
    \/ iface[1] = <<>>

\* !iface || iface.trim() === ""
BlankInterface(iface) ==
    \/ Nullish(iface)
    \/ iface[1] = <<>>
    \/ Trim(iface[1]) = <<>>

\* new Settings({...}): the schema's defaults fill the undefined paths
NewSettings(body) ==
    [models      |-> body.models,
     threshold   |-> <<Coalesce(body.threshold, DefaultThreshold)>>,
     voteK       |-> <<Coalesce(body.voteK, DefaultVoteK)>>,
     flowTimeout |-> <<Coalesce(body.flowTimeout, DefaultFlowTimeout)>>,
     interface   |-> body.interface]

\* the schema's validators, run by save()
SettingsValid(doc) ==
    /\ doc.threshold[1] >= 0
    /\ doc.threshold[1] <= 10
    /\ doc.voteK[1] >= 10
    /\ doc.flowTimeout[1] >= 10
    /\ ~Nullish(doc.interface)
    /\ doc.interface[1] # <<>>

\* the request bodies POST /settings is tried with
SettingsBodies ==
    { [models |-> <<"rf", "svm">>, threshold |-> <<5>>, voteK |-> <<10>>,
       flowTimeout |-> <<>>, interface |-> <<eth0>>],
      [models |-> <<"svm">>, threshold |-> <<>>, voteK |-> <<>>,
       flowTimeout |-> <<50>>, interface |-> <<eth0>>],
      [models |-> <<>>, threshold |-> <<5>>, voteK |-> <<10>>,
       flowTimeout |-> <<>>, interface |-> <<eth0>>],
      [models |-> <<"rf">>, threshold |-> <<5>>, voteK |-> <<10>>,
       flowTimeout |-> <<>>, interface |-> << <<" ">> >>],
      [models |-> <<"rf">>, threshold |-> <<12>>, voteK |-> <<0>>,
       flowTimeout |-> <<>>, interface |-> <<eth0>>] }

\* documents left in the collection by the earlier saveSettings, which
\* stored req.body as it came, under the earlier schema (no voteK, no
\* flowTimeout, nothing required)
LegacySettings ==
    { [models |-> <<>>, threshold |-> <<>>, voteK |-> <<>>,
       flowTimeout |-> <<>>, interface |-> <<eth0>>, updatedAt |-> 0],
      [models |-> <<"rf">>, threshold |-> <<4>>, voteK |-> <<>>,
       flowTimeout |-> <<>>, interface |-> << <<>> >>, updatedAt |-> 0],
      [models |-> <<"rf">>, threshold |-> <<>>, voteK |-> <<>>,
       flowTimeout |-> <<>>, interface |-> << <<" ", "\t">> >>,
       updatedAt |-> 0] }

\* findOne() without the sort: the record inserted first
FindFirstSettings(store) ==
    IF store = <<>> THEN <<>> ELSE <<store[1]>>

\* Settings.findOne().sort({ updatedAt: -1 })
FindLatestSettings(store) ==
    IF store = <<>> THEN <<>>
    ELSE LET i == CHOOSE i \in 1..Len(store) :
                    \A j \in 1..Len(store) :
                        \/ store[j].updatedAt < store[i].updatedAt
                        \/ (store[j].updatedAt = store[i].updatedAt /\ i <= j)
         IN <<store[i]>>

(***************************************************************************)
(* The detector's invocation.                                              *)
(***************************************************************************)
detectorPath == "detection-engine/realtime_v2/detector_live_capture_v2.py"

\* BuildArgs without the "all" fallback for an empty model list
BuildArgsJoinOnly(settings) ==
    << detectorPath,
       "--iface", settings.interface[1],
       "--models", Join(settings.models),
       "--threshold", String(Coalesce(settings.threshold, DefaultThreshold)),
       "--vote", String(Coalesce(settings.voteK, DefaultVoteK)),
       "--timeout", String(Coalesce(settings.flowTimeout, DefaultFlowTimeout)),
       "--run_mode", "service" >>

\* BuildArgs with the defaults of voteK and flowTimeout exchanged
BuildArgsDefaultsSwapped(settings) ==
    << detectorPath,
       "--iface", settings.interface[1],
       "--models", IF Len(settings.models) > 0
                   THEN Join(settings.models) ELSE "all",
       "--threshold", String(Coalesce(settings.threshold, DefaultThreshold)),
       "--vote", String(Coalesce(settings.voteK, DefaultFlowTimeout)),
       "--timeout", String(Coalesce(settings.flowTimeout, DefaultVoteK)),
       "--run_mode", "service" >>

BuildArgs(settings) ==
    << detectorPath,
       "--iface", settings.interface[1],
       "--models", IF Len(settings.models) > 0
                   THEN Join(settings.models) ELSE "all",
       "--threshold", String(Coalesce(settings.threshold, DefaultThreshold)),
       "--vote", String(Coalesce(settings.voteK, DefaultVoteK)),
       "--timeout", String(Coalesce(settings.flowTimeout, DefaultFlowTimeout)),
       "--run_mode", "service" >>

(***************************************************************************)
(* DetectionLog.                                                           *)
(***************************************************************************)
Protocols == {"TCP", "UDP"}
FinalLabels == {"BENIGN", "ATTACK"}
HybridLabels == {"BENIGN", "SUSPICIOUS", "ATTACK"}
Severities == {"BENIGN", "LOW", "MEDIUM", "HIGH"}

\* required: true on a String path rejects undefined, null and ""
RequiredString(x) == ~Nullish(x) /\ x[1] # ""

\* required: true on a Number, Date or Map path rejects undefined and null
Required(x) == ~Nullish(x)

\* new DetectionLog({...req.body, timestamp: new Date(req.body.timestamp)})
NewDetectionLog(body) ==
    [body EXCEPT !.aggregationMethod =
        <<Coalesce(body.aggregationMethod, "global-threshold-voting")>>]

\* the schema's validators, run by save()
DetectionLogValid(doc) ==
    /\ Required(doc.timestamp)
    /\ RequiredString(doc.sourceIP)
    /\ RequiredString(doc.destinationIP)
    /\ Required(doc.srcPort)
    /\ Required(doc.dstPort)
    /\ RequiredString(doc.protocol) /\ doc.protocol[1] \in Protocols
    /\ RequiredString(doc.finalLabel) /\ doc.finalLabel[1] \in FinalLabels
    /\ Required(doc.confidence)
    /\ Required(doc.attackVotes)
    /\ Required(doc.totalModels)
    /\ Required(doc.threshold)
    /\ Required(doc.voteK)
    /\ RequiredString(doc.hybridLabel) /\ doc.hybridLabel[1] \in HybridLabels
    /\ RequiredString(doc.severity) /\ doc.severity[1] \in Severities
    /\ RequiredString(doc.hybridReason)
    /\ Required(doc.flowDuration)
    /\ Required(doc.modelProbabilities)

\* a report of the detector; modelProbabilities is the map as a sequence of
\* <<model, probability>> entries in insertion order
AttackReport ==
    [timestamp |-> <<1000>>, sourceIP |-> <<"10.0.0.5">>,
     destinationIP |-> <<"10.0.0.1">>, srcPort |-> <<443>>,
     dstPort |-> <<80>>, protocol |-> <<"TCP">>,
     finalLabel |-> <<"ATTACK">>, confidence |-> <<9>>,
     attackVotes |-> <<2>>, totalModels |-> <<2>>, threshold |-> <<5>>,
     voteK |-> <<1>>, aggregationMethod |-> <<>>,
     hybridLabel |-> <<"ATTACK">>, severity |-> <<"HIGH">>,
     hybridReason |-> <<"votes">>, flowDuration |-> <<12>>,
     modelProbabilities |-> << << <<"rf", 9>>, <<"svm", 8>> >> >>]

\* the request bodies POST /detections is tried with
DetectionBodies ==
    { AttackReport,
      [AttackReport EXCEPT !.confidence = <<>>],
      [AttackReport EXCEPT !.protocol = <<"ICMP">>] }

\* The detector's reports that POST /detections receives under SpecAnalytics.
\* Timestamps are in seconds; 864000 is a midnight, so it starts a bucket of
\* every size.
EventBodies ==
    { [AttackReport EXCEPT !.timestamp = <<864000>>, !.confidence = <<10>>],
      [AttackReport EXCEPT !.timestamp = <<864030>>, !.confidence = <<2>>,
           !.finalLabel = <<"BENIGN">>, !.attackVotes = <<1>>,
           !.threshold = <<1>>,
           !.modelProbabilities = << << <<"rf", 9>>, <<"svm", 2>> >> >>],
      [AttackReport EXCEPT !.timestamp = <<864065>>, !.confidence = <<8>>,
           !.attackVotes = <<0>>, !.totalModels = <<1>>,
           !.modelProbabilities = << << <<"rf", 3>> >> >>],
      [AttackReport EXCEPT !.timestamp = <<860000>>, !.confidence = <<0>>,
           !.finalLabel = <<"BENIGN">>, !.attackVotes = <<0>>,
           !.totalModels = <<0>>, !.modelProbabilities = << <<>> >>],
      [AttackReport EXCEPT !.timestamp = <<864130>>, !.confidence = <<4>>,
           !.modelProbabilities = << << <<"svm", 9>>, <<"rf", 9>> >> >>],
      [AttackReport EXCEPT !.timestamp = <<764000>>, !.confidence = <<6>>,
           !.attackVotes = <<1>>, !.totalModels = <<1>>,
           !.modelProbabilities = << << <<"knn", 5>> >> >>],
      [AttackReport EXCEPT !.timestamp = <<864030>>, !.confidence = <<15>>,
           !.attackVotes = <<3>>],
      [AttackReport EXCEPT !.confidence = <<>>],
      [AttackReport EXCEPT !.protocol = <<"ICMP">>] }

(***************************************************************************)
(* The answer of the handler that ran last.                                *)
(***************************************************************************)
Answer(op, code, message, child) ==
    [op |-> op, code |-> code, message |-> message, child |-> child,
     running |-> FALSE, query |-> <<>>, body |-> <<>>]

NoSettings == "No detection settings found. Configure settings first."
NoInterface == "Network interface (iface) is required"
AlreadyRunning == "Monitoring already running"
NotRunning == "Monitoring is not running"
Started == "Phase-2 monitoring started (service mode)"
Stopped == "Monitoring stopped"

Init ==
    /\ monitorProcess = 0
    /\ children = <<>>
    /\ requests = <<>>
    /\ settingsStore \in {<<>>} \cup {<<s>> : s \in LegacySettings}
    /\ clock = 1
    /\ detections = <<>>
    /\ stats = <<>>
    /\ last = Answer("listen", 0, "", 0)

(***************************************************************************)
(* POST /monitor/start.                                                    *)
(***************************************************************************)
\* The stop() calls answered 200 so far: each signals one more child. A
\* pending start keeps, as history, the number it found when it arrived.
Signalled == Cardinality({c \in 1..Len(children) : children[c].sigint})

\* startMonitoring without the handle check
startMonitoringUnchecked ==
    /\ Len(requests) < MaxStarts
    /\ requests' = Append(requests,
           [pc |-> "findOne", settings |-> <<>>, code |-> 0,
            message |-> "", child |-> 0, stops |-> Signalled])
    /\ last' = Answer("start", 0, "", 0)
    /\ UNCHANGED <<stats, monitorProcess, children, settingsStore, clock,
                   detections>>

\* the handler up to its await: the handle check, then the query is issued
startMonitoring ==
    /\ Len(requests) < MaxStarts
    /\ LET r == Len(requests) + 1 IN
       IF monitorProcess # 0
       THEN /\ requests' = Append(requests,
                [pc |-> "done", settings |-> <<>>, code |-> 400,
                 message |-> AlreadyRunning, child |-> 0, stops |-> 0])
            /\ last' = Answer("start", 400, AlreadyRunning, 0)
       ELSE /\ requests' = Append(requests,
                [pc |-> "findOne", settings |-> <<>>, code |-> 0,
                 message |-> "", child |-> 0, stops |-> Signalled])
            /\ last' = Answer("start", 0, "", 0)
    /\ UNCHANGED <<stats, monitorProcess, children, settingsStore, clock,
                   detections>>

\* the database runs the query of request r
startMonitoringFindOne(r) ==
    /\ requests[r].pc = "findOne"
    /\ requests' = [requests EXCEPT ![r].pc = "resume",
                       ![r].settings = FindLatestSettings(settingsStore)]
    /\ last' = Answer("findOne", 0, "", 0)
    /\ UNCHANGED <<stats, monitorProcess, children, settingsStore, clock,
                   detections>>

\* spawn("python", args, ...) and the three handlers attached to the child
Spawn(r, settings) ==
    Append(children,
        [state |-> "alive", argv |-> BuildArgs(settings),
         settings |-> settings, req |-> r, sigint |-> FALSE])

\* the handler after its await: validation, arguments, spawn, answer
startMonitoringResume(r) ==
    /\ requests[r].pc = "resume"
    /\ LET settings == requests[r].settings IN
       IF Nullish(settings)
       THEN /\ requests' = [requests EXCEPT ![r].pc = "done", ![r].code = 400,
                               ![r].message = NoSettings,
                               ![r].settings = <<>>, ![r].stops = 0]
            /\ last' = Answer("start", 400, NoSettings, 0)
            /\ UNCHANGED <<monitorProcess, children>>
       ELSE IF BlankInterface(settings[1].interface)
       THEN /\ requests' = [requests EXCEPT ![r].pc = "done", ![r].code = 400,
                               ![r].message = NoInterface,
                               ![r].settings = <<>>, ![r].stops = 0]
            /\ last' = Answer("start", 400, NoInterface, 0)
            /\ UNCHANGED <<monitorProcess, children>>
       ELSE /\ children' = Spawn(r, settings[1])
            /\ monitorProcess' = Len(children) + 1
            /\ requests' = [requests EXCEPT ![r].pc = "done", ![r].code = 200,
                               ![r].message = Started,
                               ![r].settings = <<>>, ![r].stops = 0,
                               ![r].child = Len(children) + 1]
            /\ last' = Answer("start", 200, Started, Len(children) + 1)
    /\ UNCHANGED <<stats, settingsStore, clock, detections>>

\* a catch block that also resets the handle
startMonitoringCatchClears(r) ==
    /\ requests[r].pc = "findOne"
    /\ requests' = [requests EXCEPT ![r].pc = "done", ![r].code = 500,
                       ![r].stops = 0]
    /\ monitorProcess' = 0
    /\ last' = Answer("start", 500, "", 0)
    /\ UNCHANGED <<stats, children, settingsStore, clock, detections>>

\* the query of request r rejects: the catch block answers 500
startMonitoringCatch(r) ==
    /\ requests[r].pc = "findOne"
    /\ requests' = [requests EXCEPT ![r].pc = "done", ![r].code = 500,
                       ![r].stops = 0]
    /\ last' = Answer("start", 500, "", 0)
    /\ UNCHANGED <<stats, monitorProcess, children, settingsStore, clock,
                   detections>>

(***************************************************************************)
(* POST /monitor/stop and GET /monitor/status.                             *)
(***************************************************************************)
\* stopMonitoring that signals the child and keeps the handle
stopMonitoringKeepsHandle ==
    /\ IF monitorProcess = 0
       THEN /\ last' = Answer("stop", 400, NotRunning, 0)
            /\ UNCHANGED <<monitorProcess, children>>
       ELSE /\ children' = [children EXCEPT ![monitorProcess].sigint = TRUE]
            /\ UNCHANGED monitorProcess
            /\ last' = Answer("stop", 200, Stopped, monitorProcess)
    /\ UNCHANGED <<stats, requests, settingsStore, clock, detections>>

stopMonitoring ==
    /\ IF monitorProcess = 0
       THEN /\ last' = Answer("stop", 400, NotRunning, 0)
            /\ UNCHANGED <<monitorProcess, children>>
       ELSE /\ children' = [children EXCEPT ![monitorProcess].sigint = TRUE]
            /\ monitorProcess' = 0
            /\ last' = Answer("stop", 200, Stopped, monitorProcess)
    /\ UNCHANGED <<stats, requests, settingsStore, clock, detections>>

\* Boolean(monitorProcess)
Running == monitorProcess # 0

getStatus ==
    /\ last' = [Answer("status", 200, "", 0) EXCEPT !.running = Running]
    /\ UNCHANGED <<stats, monitorProcess, children, requests, settingsStore, clock,
                   detections>>

(***************************************************************************)
(* The child process and the handlers attached to it.                      *)
(***************************************************************************)
ExitCodes == {0, 1}

\* the detector terminates, by itself or on the signal
ChildExit(c) ==
    /\ children[c].state = "alive"
    /\ children' = [children EXCEPT ![c].state = "exited"]
    /\ last' = Answer("exit", 0, "", c)
    /\ UNCHANGED <<stats, monitorProcess, requests, settingsStore, clock,
                   detections>>

\* a close handler that clears the handle on a clean exit only
OnCloseCleanExitOnly(c, code) ==
    /\ children[c].state = "exited"
    /\ children' = [children EXCEPT ![c].state = "closed"]
    /\ monitorProcess' = IF code = 0 THEN 0 ELSE monitorProcess
    /\ last' = Answer("close", code, "Detector stopped. Exit code:", c)
    /\ UNCHANGED <<stats, requests, settingsStore, clock, detections>>

\* monitorProcess.on("close", (code) => ...)
OnClose(c, code) ==
    /\ children[c].state = "exited"
    /\ children' = [children EXCEPT ![c].state = "closed"]
    /\ monitorProcess' = 0
    /\ last' = Answer("close", code, "Detector stopped. Exit code:", c)
    /\ UNCHANGED <<stats, requests, settingsStore, clock, detections>>

\* a stdout handler that stores what the detector prints
OnStdoutDataStored(c) ==
    /\ children[c].state \in {"alive", "exited"}
    /\ Len(detections) < MaxEvents
    /\ detections' = Append(detections, NewDetectionLog(AttackReport))
    /\ last' = Answer("console.log", 0, "DETECTOR:", c)
    /\ UNCHANGED <<stats, monitorProcess, children, requests, settingsStore, clock>>

\* monitorProcess.stdout.on("data", ...)
OnStdoutData(c) ==
    /\ children[c].state \in {"alive", "exited"}
    /\ last' = Answer("console.log", 0, "DETECTOR:", c)
    /\ UNCHANGED <<stats, monitorProcess, children, requests, settingsStore, clock,
                   detections>>

\* monitorProcess.stderr.on("data", ...)
OnStderrData(c) ==
    /\ children[c].state \in {"alive", "exited"}
    /\ last' = Answer("console.error", 0, "DETECTOR ERROR:", c)
    /\ UNCHANGED <<stats, monitorProcess, children, requests, settingsStore, clock,
                   detections>>

(***************************************************************************)
(* POST /settings and POST /detections.                                    *)
(***************************************************************************)
saveSettings(body) ==
    /\ IF BlankInterface(body.interface)
       THEN /\ last' = Answer("saveSettings", 400,
                              "Network interface is required", 0)
            /\ UNCHANGED <<settingsStore, clock>>
       ELSE IF Len(body.models) = 0
       THEN /\ last' = Answer("saveSettings", 400,
                              "At least one model must be selected", 0)
            /\ UNCHANGED <<settingsStore, clock>>
       ELSE IF ~SettingsValid(NewSettings(body))
       THEN /\ last' = Answer("saveSettings", 400, "ValidationError", 0)
            /\ UNCHANGED <<settingsStore, clock>>
       ELSE /\ settingsStore' = Append(settingsStore,
                [models      |-> NewSettings(body).models,
                 threshold   |-> NewSettings(body).threshold,
                 voteK       |-> NewSettings(body).voteK,
                 flowTimeout |-> NewSettings(body).flowTimeout,
                 interface   |-> NewSettings(body).interface,
                 updatedAt   |-> clock])
            /\ clock' = clock + 1
            /\ last' = Answer("saveSettings", 200,
                              "Settings saved successfully", 0)
    /\ UNCHANGED <<stats, monitorProcess, children, requests, detections>>

\* GET /settings
getSettings ==
    /\ last' = [Answer("getSettings", 200, "", 0)
                   EXCEPT !.body = FindLatestSettings(settingsStore)]
    /\ UNCHANGED <<stats, monitorProcess, children, requests, settingsStore, clock,
                   detections>>

createDetection(body) ==
    /\ IF DetectionLogValid(NewDetectionLog(body))
       THEN /\ detections' = Append(detections, NewDetectionLog(body))
            /\ last' = [Answer("createDetection", 201, "Detection saved", 0)
                           EXCEPT !.query = body]
       ELSE /\ last' = [Answer("createDetection", 400, "ValidationError", 0)
                           EXCEPT !.query = body]
            /\ UNCHANGED detections
    /\ UNCHANGED <<stats, monitorProcess, children, requests, settingsStore, clock>>

\* The supervisor and the Settings collection. The two output handlers of a
\* child write to the console only; they run in SpecOutput below.
Next ==
    \/ startMonitoring
    \/ \E r \in 1..Len(requests) : startMonitoringFindOne(r)
    \/ \E r \in 1..Len(requests) : startMonitoringResume(r)
    \/ \E r \in 1..Len(requests) : startMonitoringCatch(r)
    \/ stopMonitoring
    \/ getStatus
    \/ \E c \in 1..Len(children) : ChildExit(c)
    \/ \E c \in 1..Len(children), code \in ExitCodes : OnClose(c, code)
    \/ \E body \in SettingsBodies :
           Len(settingsStore) < MaxSettings /\ saveSettings(body)

Spec == Init /\ [][Next]_vars

NextOutput ==
    \/ startMonitoring
    \/ \E r \in 1..Len(requests) : startMonitoringFindOne(r)
    \/ \E r \in 1..Len(requests) : startMonitoringResume(r)
    \/ \E c \in 1..Len(children) : ChildExit(c)
    \/ \E c \in 1..Len(children), code \in ExitCodes : OnClose(c, code)
    \/ \E c \in 1..Len(children) : OnStdoutData(c)
    \/ \E c \in 1..Len(children) : OnStderrData(c)
    \/ \E body \in SettingsBodies :
           Len(settingsStore) < MaxSettings /\ saveSettings(body)
    \/ \E body \in DetectionBodies :
           Len(detections) < MaxEvents /\ createDetection(body)

\* the detector's two ways of reporting: its output and POST /detections
SpecOutput == Init /\ [][NextOutput]_vars

(***************************************************************************)
(* Properties of the supervisor.                                           *)
(***************************************************************************)
Alive == {c \in 1..Len(children) : children[c].state = "alive"}

\* C1: at most one child detector process is alive at any time.
C1_AtMostOneLiveChild == Cardinality(Alive) <= 1

\* C2: once running, status() turns to running=false only by a stop() that
\* completes or by the exit event of the child the handle refers to.
C2_RunningUntilStopOrOwnExit ==
    [][(Running /\ ~Running') =>
          \/ (last'.op = "stop" /\ last'.code = 200)
          \/ (last'.op = "close" /\ last'.child = monitorProcess)]_vars

\* the step in which request r runs on after the await with Settings s
Resumes(r) == requests[r].pc = "resume" /\ requests'[r].pc = "done"

\* C3: a start() that finds no Settings record, or one whose interface is
\* empty or whitespace-only, answers 400, spawns nothing and leaves the
\* handle as it was.
C3_NoSettingsOrBlankInterfaceRejected ==
    [][\A r \in 1..Len(requests) :
          (/\ Resumes(r)
           /\ \/ requests[r].settings = <<>>
              \/ requests[r].settings[1].interface = <<>>
              \/ \A i \in 1..Len(requests[r].settings[1].interface[1]) :
                    requests[r].settings[1].interface[1][i] \in {" ", "\t"})
          => /\ requests'[r].code = 400
             /\ last'.op = "start" /\ last'.code = 400
             /\ children' = children
             /\ monitorProcess' = monitorProcess
             /\ (~Running => ~Running')]_vars

C3_Witness ==
    /\ last.op = "start" /\ last.code = 400 /\ last.message = NoInterface
    /\ settingsStore # <<>>
    /\ settingsStore[Len(settingsStore)].interface = << <<" ", "\t">> >>
    /\ children = <<>>
    /\ ~Running

NonBlank(iface) ==
    /\ iface # <<>>
    /\ \E i \in 1..Len(iface[1]) : iface[1][i] \notin {" ", "\t"}

C5_ConflictsAreNoOps ==
    [][/\ (Len(requests') = Len(requests) + 1 /\ monitorProcess # 0)
            => /\ requests'[Len(requests')].pc = "done"
               /\ requests'[Len(requests')].code = 400
               /\ last'.op = "start" /\ last'.code = 400
               /\ UNCHANGED <<monitorProcess, children>>
       /\ (last'.op = "stop" /\ monitorProcess = 0)
            => /\ last'.code = 400
               /\ UNCHANGED <<monitorProcess, children, requests>>]_vars

C5_Witness ==
    /\ last.op = "stop" /\ last.code = 400
    /\ \E r \in 1..Len(requests) :
          /\ requests[r].code = 400
          /\ requests[r].message = AlreadyRunning
    /\ children # <<>>

\* C6: stop() while a handle exists signals exactly the child the handle
\* refers to, clears the handle and answers 200; status() then reports
\* running=false.
C6_StopSignalsAndClears ==
    [][(last'.op = "stop" /\ monitorProcess # 0)
          => /\ last'.code = 200
             /\ last'.child = monitorProcess
             /\ children' = [children EXCEPT ![monitorProcess].sigint = TRUE]
             /\ monitorProcess' = 0
             /\ ~Running']_vars

C6_Witness ==
    /\ last.op = "stop" /\ last.code = 200
    /\ children[last.child].sigint
    /\ ~Running
    /\ \E c \in 1..Len(children) :
          c # last.child /\ children[c].state = "alive" /\ ~children[c].sigint

\* C7: when the exit event of a child fires, whatever its exit code, the
\* handle is cleared (status() reports running=false), and the start() that
\* spawned it stays answered with 200.
C7_ExitClearsHandle ==
    [][\A c \in 1..Len(children) :
          /\ (children[c].state = "exited" /\ children'[c].state = "closed")
                => /\ monitorProcess' = 0
                   /\ ~Running'
          /\ (children[c].state # children'[c].state)
                => /\ requests' = requests
                   /\ requests[children[c].req].code = 200]_vars

C7_Witness ==
    /\ last.op = "close" /\ last.code = 1
    /\ ~children[last.child].sigint
    /\ children[last.child].state = "closed"
    /\ requests[children[last.child].req].code = 200
    /\ ~Running

\* the argument vector spelled out, with the model argument given
ExpectedArgs(s, models) ==
    << detectorPath,
       "--iface", s.interface[1],
       "--models", models,
       "--threshold", IF s.threshold = <<>> THEN "0.5"
                      ELSE String(s.threshold[1]),
       "--vote", IF s.voteK = <<>> THEN "3" ELSE String(s.voteK[1]),
       "--timeout", IF s.flowTimeout = <<>> THEN "10"
                    ELSE String(s.flowTimeout[1]),
       "--run_mode", "service" >>

C9_VoteWithinModels ==
    \A c \in 1..Len(children) :
        children[c].settings.models # <<>>
            => \E k \in 1..Len(children[c].settings.models) :
                  children[c].argv[9] = IntToString(k)

(***************************************************************************)
(* Properties of the detector's output.                                    *)
(***************************************************************************)
\* C10: a stdout or stderr data event changes neither the DetectionLog
\* collection nor the handle (nor anything else but the console); a record
\* enters the collection only by a POST /detections answered 201, which
\* appends it.
C10_OutputOnlyLogged ==
    [][/\ last'.op \in {"console.log", "console.error"}
            => UNCHANGED <<detections, monitorProcess, children, requests,
                           settingsStore>>
       /\ detections' # detections
            => /\ last'.op = "createDetection" /\ last'.code = 201
               /\ Len(detections') = Len(detections) + 1
               /\ SubSeq(detections', 1, Len(detections)) = detections]_vars

C10_Witness ==
    /\ last.op = "console.log"
    /\ children[last.child].state = "alive"
    /\ detections # <<>>

(***************************************************************************)
(* Analytics over the DetectionLog collection (statsController and         *)
(* detectionController). Percentages are kept in hundredths, as            *)
(* toFixed(2) leaves them: 10000 is 100, 3333 is 33.33. Durations and      *)
(* Dates are kept in seconds: the code's milliseconds divided by 1000.     *)
(***************************************************************************)
\* +((n / d) * 100).toFixed(2)
ToFixed2Percent(n, d) == (n * 10000 * 2 + d) \div (2 * d)

\* modelProbabilities of a lean document: its entries in insertion order
Entries(doc) == doc.modelProbabilities[1]

Has(p, m) == \E i \in 1..Len(p) : p[i][1] = m

Get(p, m) == p[CHOOSE i \in 1..Len(p) : p[i][1] = m][2]

\* the bands of getConfidenceBands: label (its en dash written -), min and
\* max in tenths
Bands ==
    << [label |-> "0-20%", min |-> 0, max |-> 2],
       [label |-> "20-40%", min |-> 2, max |-> 4],
       [label |-> "40-60%", min |-> 4, max |-> 6],
       [label |-> "60-80%", min |-> 6, max |-> 8],
       [label |-> "80-100%", min |-> 8, max |-> 10] >>

\* the count with $lte in place of $lt
CountInBandClosed(store, band) ==
    Cardinality({i \in 1..Len(store) :
                    /\ store[i].confidence[1] >= band.min
                    /\ store[i].confidence[1] <= band.max})

\* countDocuments({ confidence: { $gte: band.min, $lt: band.max } })
CountInBand(store, band) ==
    Cardinality({i \in 1..Len(store) :
                    /\ store[i].confidence[1] >= band.min
                    /\ store[i].confidence[1] < band.max})

\* the bands as a $group stage would give them: only those that occur
ConfidenceBandsGrouped(store) ==
    LET all == [b \in 1..Len(Bands) |->
                   [range |-> Bands[b].label,
                    count |-> CountInBand(store, Bands[b])]]
        Occurs(row) == row.count > 0
    IN SelectSeq(all, Occurs)

ConfidenceBands(store) ==
    [b \in 1..Len(Bands) |->
        [range |-> Bands[b].label, count |-> CountInBand(store, Bands[b])]]

\* getConfidenceBands answering from the store only while a detector runs
getConfidenceBandsWhileRunning ==
    /\ last' = [Answer("getConfidenceBands", 200, "", 0)
                   EXCEPT !.body = ConfidenceBands(
                       IF monitorProcess = 0 THEN <<>> ELSE detections)]
    /\ UNCHANGED <<stats, monitorProcess, children, requests, settingsStore, clock,
                   detections>>

\* GET /stats/confidence/bands
getConfidenceBands ==
    /\ last' = [Answer("getConfidenceBands", 200, "", 0)
                   EXCEPT !.body = ConfidenceBands(detections)]
    /\ UNCHANGED <<stats, monitorProcess, children, requests, settingsStore, clock,
                   detections>>

\* the range table of detectionController.getTrafficTimeline
TimelineConfig ==
    [r \in {"1h", "24h", "7d"} |->
        CASE r = "1h"  -> [ms |-> 60 * 60, bucket |-> 60]
          [] r = "24h" -> [ms |-> 24 * 60 * 60, bucket |-> 5 * 60]
          [] r = "7d"  -> [ms |-> 7 * 24 * 60 * 60, bucket |-> 60 * 60]]

\* const { range = "1h" } = req.query; config[range] || config["24h"]
TimelineCfg(range) ==
    LET r == Coalesce(range, "1h")
    IN IF r \in DOMAIN TimelineConfig THEN TimelineConfig[r]
       ELSE TimelineConfig["24h"]

\* $sort: { _id: -1 } over the groups
RECURSIVE Descending(_)
Descending(S) ==
    IF S = {} THEN <<>>
    ELSE LET m == CHOOSE x \in S : \A y \in S : x >= y
         IN <<m>> \o Descending(S \ {m})

\* $sort: { _id: 1 } over the groups
RECURSIVE Ascending(_)
Ascending(S) ==
    IF S = {} THEN <<>>
    ELSE LET m == CHOOSE x \in S : \A y \in S : x <= y
         IN <<m>> \o Ascending(S \ {m})

\* $toLong(timestamp) - ($toLong(timestamp) mod bucket)
BucketOf(doc, bucket) == doc.timestamp[1] - (doc.timestamp[1] % bucket)

\* the pipeline $match, $project, $group, $sort and the final map
TrafficTimeline(store, cfg, now) ==
    LET matched == {i \in 1..Len(store) :
                       store[i].timestamp[1] >= now - cfg.ms}
        ids == Ascending({BucketOf(store[i], cfg.bucket) : i \in matched})
    IN [g \in 1..Len(ids) |->
           [timestamp |-> ids[g],
            count |-> Cardinality({i \in matched :
                          BucketOf(store[i], cfg.bucket) = ids[g]})]]

\* the values of Date.now() the timeline is asked at
Nows == {864140}

\* the values of ?range=, <<>> when the parameter is absent
Ranges == { <<>>, <<"1h">>, <<"2h">>, <<"24h">>, <<"7d">>, <<"30d">>,
            <<"1y">>, <<"15m">> }

\* GET /detections/timeline
getTrafficTimeline(range, now) ==
    /\ last' = [Answer("getTrafficTimeline", 200, "", 0)
                   EXCEPT !.query = [range |-> range, now |-> now],
                          !.body = TrafficTimeline(detections,
                                       TimelineCfg(range), now)]
    /\ UNCHANGED <<stats, monitorProcess, children, requests, settingsStore, clock,
                   detections>>

\* the loop with >= in place of >: the last entry holding the greatest value
RECURSIVE DominantLast(_, _, _, _)
DominantLast(p, i, best, max) ==
    IF i > Len(p) THEN best
    ELSE IF p[i][2] >= max THEN DominantLast(p, i + 1, i, p[i][2])
         ELSE DominantLast(p, i + 1, best, max)

\* the entry of p that the loop of getModelDominanceFrequency ends with:
\* the first one holding the greatest value, 0 when none exceeds -1
RECURSIVE Dominant(_, _, _, _)
Dominant(p, i, best, max) ==
    IF i > Len(p) THEN best
    ELSE IF p[i][2] > max THEN Dominant(p, i + 1, i, p[i][2])
         ELSE Dominant(p, i + 1, best, max)

\* the keys of dominanceCount in the order they were first assigned
RECURSIVE Winners(_)
Winners(alerts) ==
    IF alerts = <<>> THEN <<>>
    ELSE LET rest == Winners(SubSeq(alerts, 1, Len(alerts) - 1))
             p == Entries(alerts[Len(alerts)])
             d == Dominant(p, 1, 0, -1)
         IN IF d = 0 \/ (\E k \in 1..Len(rest) : rest[k] = p[d][1])
            THEN rest ELSE Append(rest, p[d][1])

\* the percentages taken over every stored event, empty maps included
ModelDominanceOverStore(store) ==
    LET Wins(m) == Cardinality({a \in 1..Len(store) :
                       LET d == Dominant(Entries(store[a]), 1, 0, -1)
                       IN d # 0 /\ Entries(store[a])[d][1] = m})
        NonEmpty(doc) == Entries(doc) # <<>>
        keys == Winners(SelectSeq(store, NonEmpty))
    IN [k \in 1..Len(keys) |->
           [model |-> keys[k],
            percent |-> ToFixed2Percent(Wins(keys[k]), Len(store))]]

ModelDominanceFrequency(store) ==
    LET NonEmpty(doc) == Entries(doc) # <<>>
        alerts == SelectSeq(store, NonEmpty)
        Wins(m) == Cardinality({a \in 1..Len(alerts) :
                       LET d == Dominant(Entries(alerts[a]), 1, 0, -1)
                       IN d # 0 /\ Entries(alerts[a])[d][1] = m})
        total == Cardinality({a \in 1..Len(alerts) :
                       Dominant(Entries(alerts[a]), 1, 0, -1) # 0})
        keys == Winners(alerts)
    IN [k \in 1..Len(keys) |->
           [model |-> keys[k],
            percent |-> ToFixed2Percent(Wins(keys[k]), total)]]

\* GET /stats/models/dominance
getModelDominanceFrequency ==
    /\ last' = [Answer("getModelDominanceFrequency", 200, "", 0)
                   EXCEPT !.body = ModelDominanceFrequency(detections)]
    /\ UNCHANGED <<stats, monitorProcess, children, requests, settingsStore, clock,
                   detections>>

\* Array.from(modelSet): every key of every map, in the order first seen
RECURSIVE AddKeys(_, _)
AddKeys(models, p) ==
    IF p = <<>> THEN models
    ELSE AddKeys(IF \E k \in 1..Len(models) : models[k] = p[1][1]
                 THEN models ELSE Append(models, p[1][1]), Tail(p))

RECURSIVE ModelsSeen(_)
ModelsSeen(alerts) ==
    IF alerts = <<>> THEN <<>>
    ELSE AddKeys(ModelsSeen(SubSeq(alerts, 1, Len(alerts) - 1)),
                 Entries(alerts[Len(alerts)]))

\* p[m] >= 0.5 ? "ATTACK" : "BENIGN"
LabelOf(v) == IF v >= 5 THEN "ATTACK" ELSE "BENIGN"

\* the cell taken over the events in which m1 reported, m2 or not
AgreementOverFirst(alerts, m1, m2) ==
    LET first == {a \in 1..Len(alerts) : Has(Entries(alerts[a]), m1)}
        agree == {a \in first :
                    /\ Has(Entries(alerts[a]), m2)
                    /\ LabelOf(Get(Entries(alerts[a]), m1))
                          = LabelOf(Get(Entries(alerts[a]), m2))}
    IN IF Cardinality(first) = 0 THEN 0
       ELSE ToFixed2Percent(Cardinality(agree), Cardinality(first))

\* the cell with each probability labelled at the threshold of its event
AgreementByEventThreshold(alerts, m1, m2) ==
    LET both == {a \in 1..Len(alerts) :
                    Has(Entries(alerts[a]), m1) /\ Has(Entries(alerts[a]), m2)}
        agree == {a \in both :
                    (Get(Entries(alerts[a]), m1) >= alerts[a].threshold[1])
                      <=> (Get(Entries(alerts[a]), m2) >= alerts[a].threshold[1])}
    IN IF Cardinality(both) = 0 THEN 0
       ELSE ToFixed2Percent(Cardinality(agree), Cardinality(both))

\* one cell of the matrix
Agreement(alerts, m1, m2) ==
    LET both == {a \in 1..Len(alerts) :
                    Has(Entries(alerts[a]), m1) /\ Has(Entries(alerts[a]), m2)}
        agree == {a \in both :
                    LabelOf(Get(Entries(alerts[a]), m1))
                        = LabelOf(Get(Entries(alerts[a]), m2))}
    IN IF Cardinality(both) = 0 THEN 0
       ELSE ToFixed2Percent(Cardinality(agree), Cardinality(both))

ModelAgreementMatrix(store) ==
    LET models == ModelsSeen(store)
        names == {models[k] : k \in 1..Len(models)}
    IN [models |-> models,
        matrix |-> [m1 \in names |->
                       [m2 \in names |-> Agreement(store, m1, m2)]]]

\* GET /stats/models/agreement
getModelAgreementMatrix ==
    /\ last' = [Answer("getModelAgreementMatrix", 200, "", 0)
                   EXCEPT !.body = ModelAgreementMatrix(detections)]
    /\ UNCHANGED <<stats, monitorProcess, children, requests, settingsStore, clock,
                   detections>>

\* .limit(50)
EnsembleLimit == 50

\* Math.max(...Object.values(p)): <<>> is -Infinity, which JSON writes as null
RECURSIVE MathMax(_)
MathMax(p) ==
    IF p = <<>> THEN <<>>
    ELSE LET rest == MathMax(Tail(p))
         IN IF rest = <<>> \/ p[1][2] >= rest[1] THEN <<p[1][2]>> ELSE rest

\* +(x * 100).toFixed(2) of a value kept in tenths
TimesHundred(x) == IF x = <<>> THEN <<>> ELSE <<x[1] * 1000>>

\* find().sort({ createdAt: 1 }).limit(50) and the map over the result
EnsembleVsBestModel(store) ==
    LET n == IF Len(store) < EnsembleLimit THEN Len(store) ELSE EnsembleLimit
    IN [idx \in 1..n |->
           [index |-> idx,
            ensembleConfidence |-> TimesHundred(store[idx].confidence),
            bestModelConfidence |-> TimesHundred(MathMax(Entries(store[idx])))]]

\* GET /stats/confidence/ensemble-vs-best
getEnsembleVsBestModel ==
    /\ last' = [Answer("getEnsembleVsBestModel", 200, "", 0)
                   EXCEPT !.body = EnsembleVsBestModel(detections)]
    /\ UNCHANGED <<stats, monitorProcess, children, requests, settingsStore, clock,
                   detections>>

\* Ingestion and the analytics queries the dashboard issues on demand.
NextAnalytics ==
    \/ \E body \in EventBodies :
           Len(detections) < MaxStored /\ createDetection(body)
    \/ getConfidenceBands
    \/ \E range \in Ranges, now \in Nows : getTrafficTimeline(range, now)
    \/ getModelDominanceFrequency
    \/ getModelAgreementMatrix
    \/ getEnsembleVsBestModel

\* the analytics read the DetectionLog collection only: they are run on a
\* database without Settings
InitAnalytics == Init /\ settingsStore = <<>>

SpecAnalytics == InitAnalytics /\ [][NextAnalytics]_vars

(***************************************************************************)
(* The Settings collection and the supervisor that reads it.               *)
(***************************************************************************)
NextSettings ==
    \/ startMonitoring
    \/ \E r \in 1..Len(requests) : startMonitoringFindOne(r)
    \/ \E r \in 1..Len(requests) : startMonitoringResume(r)
    \/ getSettings
    \/ \E body \in SettingsBodies :
           Len(settingsStore) < MaxSaved /\ saveSettings(body)

SpecSettings == Init /\ [][NextSettings]_vars

\* record i of the store has the greatest updatedAt
Current(store, i) ==
    /\ i \in 1..Len(store)
    /\ \A j \in 1..Len(store) : j # i => store[j].updatedAt < store[i].updatedAt

\* C11: a successful save appends one record and leaves the earlier ones as
\* they were (and no other step touches the collection); the current
\* Settings, as GET /settings and start()'s query return it, is the record
\* with the greatest updatedAt; and a start() that spawns builds the child's
\* arguments from the record that was current when its query ran.
C11_AppendOnlyAndCurrent ==
    [][/\ Len(settingsStore') >= Len(settingsStore)
       /\ SubSeq(settingsStore', 1, Len(settingsStore)) = settingsStore
       /\ (last'.op = "saveSettings" /\ last'.code = 200)
             <=> Len(settingsStore') = Len(settingsStore) + 1
       /\ (last'.op = "getSettings" /\ settingsStore # <<>>) =>
             \E i \in 1..Len(settingsStore) :
                 /\ Current(settingsStore, i)
                 /\ last'.body = <<settingsStore[i]>>
       /\ \A r \in 1..Len(requests) :
             /\ (requests[r].pc = "findOne" /\ requests'[r].pc = "resume"
                    /\ settingsStore # <<>>) =>
                   \E i \in 1..Len(settingsStore) :
                       /\ Current(settingsStore, i)
                       /\ requests'[r].settings = <<settingsStore[i]>>
             /\ (Resumes(r) /\ requests'[r].code = 200) =>
                   /\ children'[Len(children')].settings
                          = requests[r].settings[1]
                   /\ children'[Len(children')].argv
                          = BuildArgs(requests[r].settings[1])
      ]_vars

\* two records are stored, a start() read the collection before the second
\* was saved, and its child runs on the first
C11_Witness ==
    /\ Len(settingsStore) = 2
    /\ \E c \in 1..Len(children) :
          /\ children[c].settings = settingsStore[1]
          /\ children[c].settings # settingsStore[2]

(***************************************************************************)
(* Properties of ingestion.                                                *)
(***************************************************************************)
\* the ranges the data model gives confidence and the vote counts
InRange(doc) ==
    /\ 0 <= doc.confidence[1] /\ doc.confidence[1] <= 10
    /\ 0 <= doc.attackVotes[1] /\ doc.attackVotes[1] <= doc.totalModels[1]

\* C12: a POST /detections whose body passes validation (every required
\* field present and in range) appends exactly one record and answers 201;
\* one with a missing or out-of-range required field answers 400 and leaves
\* the store as it was; no POST changes or removes a stored record.
C12_IngestionValidated ==
    [][last'.op = "createDetection" =>
         LET doc == NewDetectionLog(last'.query) IN
         /\ SubSeq(detections', 1, Len(detections)) = detections
         /\ IF DetectionLogValid(doc) /\ InRange(doc)
            THEN /\ last'.code = 201
                 /\ detections' = Append(detections, doc)
            ELSE /\ last'.code = 400
                 /\ detections' = detections
      ]_vars

\* C13: every stored record has 0 <= confidence <= 1 and
\* 0 <= attackVotes <= totalModels.
C13_StoredInRange ==
    \A i \in 1..Len(detections) : InRange(detections[i])

(***************************************************************************)
(* The analytics next to a running supervisor.                             *)
(***************************************************************************)
NextFrame ==
    \/ startMonitoring
    \/ \E r \in 1..Len(requests) : startMonitoringFindOne(r)
    \/ \E r \in 1..Len(requests) : startMonitoringResume(r)
    \/ stopMonitoring
    \/ \E body \in DetectionBodies :
           Len(detections) < MaxEvents /\ createDetection(body)
    \/ getConfidenceBands
    \/ \E range \in Ranges, now \in Nows : getTrafficTimeline(range, now)
    \/ getModelDominanceFrequency
    \/ getModelAgreementMatrix
    \/ getEnsembleVsBestModel

SpecFrame == Init /\ [][NextFrame]_vars

AnalyticsOps ==
    {"getConfidenceBands", "getTrafficTimeline", "getModelDominanceFrequency",
     "getModelAgreementMatrix", "getEnsembleVsBestModel"}

\* what each query answers, from the event store and the request alone
AnalyticsResult(op, query, store) ==
    CASE op = "getConfidenceBands" -> ConfidenceBands(store)
      [] op = "getTrafficTimeline" ->
            TrafficTimeline(store, TimelineCfg(query.range), query.now)
      [] op = "getModelDominanceFrequency" -> ModelDominanceFrequency(store)
      [] op = "getModelAgreementMatrix" -> ModelAgreementMatrix(store)
      [] op = "getEnsembleVsBestModel" -> EnsembleVsBestModel(store)

\* C14: an analytics query changes neither the event store, nor the Settings
\* records, nor the process handle (nor the children and the pending
\* starts), and what it answers is determined by the event store and the
\* request: it is the same whether the supervisor is STOPPED or RUNNING.
C14_AnalyticsReadOnly ==
    [][last'.op \in AnalyticsOps =>
         /\ UNCHANGED <<detections, settingsStore, clock, monitorProcess,
                        children, requests>>
         /\ last'.code = 200
         /\ last'.body = AnalyticsResult(last'.op, last'.query, detections)
      ]_vars

\* a query has answered from a non-empty store while a detector is running
C14_Witness ==
    /\ last.op = "getConfidenceBands"
    /\ monitorProcess # 0
    /\ children[monitorProcess].state = "alive"
    /\ detections # <<>>
    /\ last.body[5].count = 1

(***************************************************************************)
(* Properties of the analytics.                                            *)
(***************************************************************************)
\* C15: on an empty event store every analytics query answers 200 with an
\* empty or all-zero result: an empty timeline, five zero band counts, an
\* empty dominance list, an empty model list and matrix, an empty ensemble
\* sequence.
C15_EmptyStoreEmptyResults ==
    (last.op \in AnalyticsOps /\ detections = <<>>) =>
        /\ last.code = 200
        /\ last.op = "getTrafficTimeline" => last.body = <<>>
        /\ last.op = "getConfidenceBands" =>
              /\ Len(last.body) = 5
              /\ \A b \in 1..5 : last.body[b].count = 0
        /\ last.op = "getModelDominanceFrequency" => last.body = <<>>
        /\ last.op = "getModelAgreementMatrix" =>
              /\ last.body.models = <<>>
              /\ DOMAIN last.body.matrix = {}
        /\ last.op = "getEnsembleVsBestModel" => last.body = <<>>

\* the band query has answered on an empty store
C15_Witness ==
    /\ detections = <<>>
    /\ last.op = "getConfidenceBands"
    /\ Len(last.body) = 5

\* the stored events whose confidence, in tenths, is one of cs
WithConfidence(cs) ==
    {i \in 1..Len(detections) : detections[i].confidence[1] \in cs}

\* C16: the band query counts an event whose confidence is exactly 1.0 in
\* the "80-100%" band: that band is closed at 1.0.
C16_TopBandClosed ==
    last.op = "getConfidenceBands" =>
        last.body[5].count = Cardinality(WithConfidence(8..10))

\* C17: the band query answers exactly five counts in the order 0-20, 20-40,
\* 40-60, 60-80, 80-100, zero counts included, and a confidence below 1.0
\* is counted in the one band whose lower edge is at or below it and whose
\* upper edge is above it: an event exactly on 0.2, 0.4, 0.6 or 0.8 is
\* counted in the higher band and in no other.
C17_FiveBandsHalfOpen ==
    last.op = "getConfidenceBands" =>
        /\ [b \in 1..Len(last.body) |-> last.body[b].range]
              = <<"0-20%", "20-40%", "40-60%", "60-80%", "80-100%">>
        /\ \A b \in 1..4 :
              last.body[b].count =
                  Cardinality(WithConfidence({c \in 0..9 : c \div 2 = b - 1}))
        /\ last.body[5].count >= Cardinality(WithConfidence({8, 9}))
        /\ \A b \in 1..4 :
              WithConfidence({2 * b}) # {} =>
                  /\ last.body[b + 1].count >= Cardinality(WithConfidence({2 * b}))
                  /\ last.body[b].count
                        = Cardinality(WithConfidence({2 * b - 2, 2 * b - 1}))

\* events on the boundaries 0.2 and 0.8 are stored, and the band query has
\* counted them in the second and the fifth band, with none in the first
C17_Witness ==
    /\ last.op = "getConfidenceBands"
    /\ WithConfidence({2}) # {} /\ WithConfidence({8}) # {}
    /\ last.body[1].count = 0
    /\ last.body[2].count >= 1
    /\ last.body[4].count = 0
    /\ last.body[5].count >= 1

RECURSIVE SumOfCounts(_)
SumOfCounts(rows) ==
    IF rows = <<>> THEN 0 ELSE Head(rows).count + SumOfCounts(Tail(rows))

\* C18: with the window W and the bucket size B the request selects, the
\* timeline has one entry per distinct value timestamp - (timestamp mod B)
\* over the events with timestamp >= now - W, each with the number of those
\* events in that bucket; the entries are strictly ascending by bucket start,
\* none has a zero count, and the counts sum to the number of events in the
\* window. With B = 60 s and events at 00:00:00, 00:00:30 and 00:01:05 the
\* answer is [{00:00:00, 2}, {00:01:00, 1}].
C18_TimelineBuckets ==
    last.op = "getTrafficTimeline" =>
        LET W == TimelineCfg(last.query.range).ms
            B == TimelineCfg(last.query.range).bucket
            inWindow == {i \in 1..Len(detections) :
                            detections[i].timestamp[1] >= last.query.now - W}
            Start(i) == detections[i].timestamp[1]
                            - (detections[i].timestamp[1] % B)
            rows == last.body
        IN /\ {rows[g].timestamp : g \in 1..Len(rows)}
                 = {Start(i) : i \in inWindow}
           /\ \A g \in 1..Len(rows) :
                 /\ rows[g].count
                       = Cardinality({i \in inWindow : Start(i) = rows[g].timestamp})
                 /\ rows[g].count > 0
                 /\ g > 1 => rows[g - 1].timestamp < rows[g].timestamp
           /\ SumOfCounts(rows) = Cardinality(inWindow)
           /\ ( /\ B = 60
                /\ Len(detections) = 3
                /\ {detections[i].timestamp[1] : i \in 1..3}
                       = {864000, 864030, 864065} ) =>
                 rows = << [timestamp |-> 864000, count |-> 2],
                           [timestamp |-> 864060, count |-> 1] >>

\* the three events of the example are stored and the timeline of the last
\* hour has answered two buckets
C18_Witness ==
    /\ last.op = "getTrafficTimeline"
    /\ last.query.range = <<"1h">>
    /\ {detections[i].timestamp[1] : i \in 1..Len(detections)}
           = {864000, 864030, 864065}
    /\ Len(last.body) = 2
    /\ last.body[1].count = 2

\* the (window, bucket) pair of each range value, in seconds
RangeTable(r) ==
    CASE r = "1h"  -> [ms |-> 60 * 60, bucket |-> 60]
      [] r = "2h"  -> [ms |-> 2 * 60 * 60, bucket |-> 2 * 60]
      [] r = "24h" -> [ms |-> 24 * 60 * 60, bucket |-> 5 * 60]
      [] r = "7d"  -> [ms |-> 7 * 24 * 60 * 60, bucket |-> 60 * 60]
      [] r = "30d" -> [ms |-> 30 * 24 * 60 * 60, bucket |-> 6 * 60 * 60]
      [] r = "1y"  -> [ms |-> 365 * 24 * 60 * 60, bucket |-> 24 * 60 * 60]
      [] OTHER     -> [ms |-> 24 * 60 * 60, bucket |-> 5 * 60]

\* C19: the range parameter selects 1h -> (1h, 1 min), 2h -> (2h, 2 min),
\* 24h -> (24h, 5 min), 7d -> (7d, 1 h), 30d -> (30d, 6 h), 1y -> (1y, 1 day)
\* and any other value (24h, 5 min): the timeline answered for a range is the
\* one bucketed with that pair.
C19_RangeSelectsWindowAndBucket ==
    (last.op = "getTrafficTimeline" /\ last.query.range # <<>>) =>
        last.body = TrafficTimeline(detections,
                        RangeTable(last.query.range[1]), last.query.now)

\* the models that reported a value in at least one stored event
Reported ==
    {m \in {"rf", "svm", "knn"} :
        \E i \in 1..Len(detections) : Has(Entries(detections[i]), m)}

\* C20: the agreement matrix is exactly symmetric over the models seen in
\* the store, and its diagonal entry is 100 for every model that reported a
\* value in at least one event.
C20_MatrixSymmetricDiagonal100 ==
    last.op = "getModelAgreementMatrix" =>
        LET matrix == last.body.matrix
            models == {last.body.models[k] : k \in 1..Len(last.body.models)}
        IN /\ models = Reported
           /\ DOMAIN matrix = Reported
           /\ \A m1 \in Reported : DOMAIN matrix[m1] = Reported
           /\ \A m1 \in Reported, m2 \in Reported :
                 matrix[m1][m2] = matrix[m2][m1]
           /\ \A m \in Reported : matrix[m][m] = 10000

\* rf reported in two events and svm in one of them, where the two agree:
\* the matrix has been answered with 100 in all four cells
C20_Witness ==
    /\ last.op = "getModelAgreementMatrix"
    /\ Len(detections) = 2
    /\ Entries(detections[1]) = << <<"rf", 9>>, <<"svm", 8>> >>
    /\ Entries(detections[2]) = << <<"rf", 3>> >>
    /\ last.body.models = <<"rf", "svm">>
    /\ last.body.matrix["rf"]["svm"] = 10000
    /\ last.body.matrix["svm"]["rf"] = 10000

\* the stored events in which both m1 and m2 reported a value
Comparable(m1, m2) ==
    {i \in 1..Len(detections) :
        /\ \E k \in 1..Len(Entries(detections[i])) :
               Entries(detections[i])[k][1] = m1
        /\ \E k \in 1..Len(Entries(detections[i])) :
               Entries(detections[i])[k][1] = m2}

\* the value m reported in event i is at least 0.5
AttackAtHalf(i, m) ==
    \E k \in 1..Len(Entries(detections[i])) :
        /\ Entries(detections[i])[k][1] = m
        /\ Entries(detections[i])[k][2] >= 5

\* C21: the agreement of (m1, m2) is taken over the events in which both
\* reported a value, each probability being ATTACK iff it is >= 0.5 whatever
\* the threshold of the event; it is 100 * matches / comparable events (to
\* two decimals), and 0 when no event holds both models.
C21_AgreementOverComparable ==
    last.op = "getModelAgreementMatrix" =>
        \A m1 \in Reported, m2 \in Reported :
            LET comparable == Comparable(m1, m2)
                matches == {i \in comparable :
                               AttackAtHalf(i, m1) <=> AttackAtHalf(i, m2)}
                cell == last.body.matrix[m1][m2]
                d == cell * Cardinality(comparable)
                         - 10000 * Cardinality(matches)
            IN IF comparable = {} THEN cell = 0
               ELSE 2 * d <= Cardinality(comparable)
                      /\ -2 * d <= Cardinality(comparable)

\* rf and svm agree in one of two common events, the other having a
\* threshold of 0.1 under which they would agree too; knn shares no event
\* with rf: the matrix has been answered with 50 and 0
C21_Witness ==
    /\ last.op = "getModelAgreementMatrix"
    /\ \E i \in 1..Len(detections) :
          /\ detections[i].threshold = <<1>>
          /\ Entries(detections[i]) = << <<"rf", 9>>, <<"svm", 2>> >>
    /\ Reported = {"rf", "svm", "knn"}
    /\ last.body.matrix["rf"]["svm"] = 5000
    /\ last.body.matrix["rf"]["knn"] = 0

RECURSIVE SumOfPercents(_)
SumOfPercents(rows) ==
    IF rows = <<>> THEN 0 ELSE Head(rows).percent + SumOfPercents(Tail(rows))

\* the stored events whose modelProbabilities map is not empty
Qualifying == {i \in 1..Len(detections) : Entries(detections[i]) # <<>>}

\* C22: when some event has a non-empty map, the dominance percentages sum
\* to 100 within the rounding of the entries (half a hundredth each).
C22_DominanceSumsTo100 ==
    (last.op = "getModelDominanceFrequency" /\ Qualifying # {}) =>
        /\ last.body # <<>>
        /\ 2 * (SumOfPercents(last.body) - 10000) <= Len(last.body)
        /\ 2 * (10000 - SumOfPercents(last.body)) <= Len(last.body)

\* three events won by three models (and one with an empty map): the
\* answer is 33.33 three times
C22_Witness ==
    /\ last.op = "getModelDominanceFrequency"
    /\ Len(last.body) = 3
    /\ SumOfPercents(last.body) = 9999

\* the first model, in the order of the map of event i, that holds the
\* greatest value of the map
FirstMax(i) ==
    LET p == Entries(detections[i])
        k == CHOOSE k \in 1..Len(p) :
                 /\ \A j \in 1..Len(p) : p[j][2] <= p[k][2]
                 /\ \A j \in 1..(k - 1) : p[j][2] < p[k][2]
    IN p[k][1]

WinsOf(m) == Cardinality({i \in Qualifying : FirstMax(i) = m})

\* C23: every event with a non-empty map gives one win to the first model
\* of its map that holds the greatest value, and an event with an empty map
\* counts neither as a win nor in the denominator: the models answered are
\* those with a win, each once, and the percentage of each is
\* 100 * wins / qualifying events (to two decimals).
C23_OneWinPerQualifyingEvent ==
    last.op = "getModelDominanceFrequency" =>
        /\ {last.body[k].model : k \in 1..Len(last.body)}
              = {FirstMax(i) : i \in Qualifying}
        /\ \A k \in 1..Len(last.body), j \in 1..Len(last.body) :
              last.body[k].model = last.body[j].model => k = j
        /\ \A k \in 1..Len(last.body) :
              LET d == last.body[k].percent * Cardinality(Qualifying)
                           - 10000 * WinsOf(last.body[k].model)
              IN 2 * d <= Cardinality(Qualifying)
                   /\ -2 * d <= Cardinality(Qualifying)

\* an event whose map holds 0.9 twice, svm first, and an event with an empty
\* map are stored: svm has been answered with 100
C23_Witness ==
    /\ last.op = "getModelDominanceFrequency"
    /\ Len(detections) = 2
    /\ Entries(detections[1]) = << <<"svm", 9>>, <<"rf", 9>> >>
    /\ Entries(detections[2]) = <<>>
    /\ last.body = << [model |-> "svm", percent |-> 10000] >>

\* C25: in every entry of the ensemble-vs-best answer, bestModelConfidence
\* is the greatest value of the event's modelProbabilities map (so it is at
\* least every value of the map), and it is 0 when the map is empty.
C25_BestIsMaxOrZero ==
    last.op = "getEnsembleVsBestModel" =>
        \A idx \in 1..Len(last.body) :
            LET p == Entries(detections[idx])
                best == last.body[idx].bestModelConfidence
            IN IF p = <<>> THEN best = <<0>>
               ELSE /\ best # <<>>
                    /\ \A k \in 1..Len(p) : best[1] >= p[k][2] * 1000
                    /\ \E k \in 1..Len(p) : best[1] = p[k][2] * 1000

(***************************************************************************)
(* The ensemble-vs-best query on a store of about fifty events.            *)
(***************************************************************************)
\* the k-th report of a detector that has been running for a while
BacklogReport(k) ==
    [AttackReport EXCEPT !.timestamp = <<800000 + k>>,
                         !.confidence = <<k % 11>>]

\* the reports that follow them
RecentBodies ==
    { [AttackReport EXCEPT !.timestamp = <<864000>>, !.confidence = <<10>>],
      [AttackReport EXCEPT !.timestamp = <<864030>>, !.confidence = <<2>>,
           !.modelProbabilities = << <<>> >>] }

NextEnsemble ==
    \/ /\ Len(detections) < Backlog
       /\ createDetection(BacklogReport(Len(detections) + 1))
    \/ \E body \in RecentBodies :
           /\ Backlog <= Len(detections)
           /\ Len(detections) < Backlog + MaxRecent
           /\ createDetection(body)
    \/ getEnsembleVsBestModel

SpecEnsemble == InitAnalytics /\ [][NextEnsemble]_vars

\* C24: the ensemble-vs-best query answers the most recent 50 events of the
\* store, all of them when fewer than 50 exist, in ascending chronological
\* order and indexed 1, 2, ..., k without gaps.
C24_MostRecentFifty ==
    last.op = "getEnsembleVsBestModel" =>
        LET n == Len(detections)
            k == IF n < EnsembleLimit THEN n ELSE EnsembleLimit
        IN /\ Len(last.body) = k
           /\ \A j \in 1..k :
                 /\ last.body[j].index = j
                 /\ last.body[j].ensembleConfidence
                       = <<detections[n - k + j].confidence[1] * 1000>>

(***************************************************************************)
(* Properties of the supervisor under overlapping requests and late exits. *)
(***************************************************************************)
\* C26: the exit event of a child clears the handle only while the handle
\* refers to that child: the late exit event of a child that is no longer
\* the handle's leaves the handle (and what status() reports) as it was.
C26_ExitClearsOwnHandleOnly ==
    [][\A c \in 1..Len(children) :
          (children[c].state = "exited" /\ children'[c].state = "closed"
             /\ monitorProcess # c)
            => /\ monitorProcess' = monitorProcess
               /\ Running' = Running]_vars

\* C27: no detector is orphaned: every child that is alive and has not been
\* sent the interrupt signal is the child the handle refers to.
C27_NoOrphan ==
    \A c \in 1..Len(children) :
        (children[c].state = "alive" /\ ~children[c].sigint)
            => monitorProcess = c

\* C28: after a stop() answered 200 the handle stays empty and no child is
\* spawned until a start() that arrived after that stop() is processed: the
\* start() that spawns a child (the only step that sets the handle) arrived
\* after every stop() answered 200 so far.
C28_StoppedUntilLaterStart ==
    [][/\ Len(children') > Len(children) =>
            \E r \in 1..Len(requests) :
                /\ Resumes(r)
                /\ requests[r].stops = Signalled
       /\ (monitorProcess = 0 /\ monitorProcess' # 0) =>
            Len(children') > Len(children)]_vars

\* the step in which request r is answered with a failure
Fails(r) ==
    /\ r \in 1..Len(requests')
    /\ requests'[r].pc = "done" /\ requests'[r].code \in {400, 500}
    /\ r \in 1..Len(requests) => requests[r].pc # "done"

\* C29: a start() that fails (conflict, missing or invalid Settings, or a
\* failed read answered 500) spawns nothing and leaves the handle as it was;
\* and it does not wedge the supervisor: a start() arriving while the handle
\* is empty is taken on, and one that read Settings with a non-blank
\* interface answers 200 and spawns, whatever failed before.
C29_FailedStartHarmless ==
    [][/\ \A r \in 1..Len(requests') :
             Fails(r) => /\ children' = children
                         /\ monitorProcess' = monitorProcess
       /\ (Len(requests') > Len(requests) /\ monitorProcess = 0) =>
             requests'[Len(requests')].pc = "findOne"
       /\ \A r \in 1..Len(requests) :
             (Resumes(r) /\ ~Nullish(requests[r].settings)
                /\ NonBlank(requests[r].settings[1].interface)) =>
                 /\ requests'[r].code = 200
                 /\ Len(children') = Len(children) + 1
                 /\ monitorProcess' = Len(children')]_vars

\* a start() was answered 500 and one 400, and a later start() has spawned a
\* child that the handle refers to
C29_Witness ==
    /\ Len(requests) = 2
    /\ requests[1].pc = "done" /\ requests[1].code = 500
    /\ requests[2].pc = "done" /\ requests[2].code = 200
    /\ monitorProcess = requests[2].child
    /\ children[monitorProcess].state = "alive"

(***************************************************************************)
(* GET /detections/stats: four counts issued together, each run by the     *)
(* database on its own, with ingestion going on.                           *)
(***************************************************************************)
StatsFields == {"total", "attack", "benign", "high"}

\* the four countDocuments calls of getStats
StatsCount(field, store) ==
    CASE field = "total"  -> Len(store)
      [] field = "attack" ->
            Cardinality({i \in 1..Len(store) : store[i].finalLabel = <<"ATTACK">>})
      [] field = "benign" ->
            Cardinality({i \in 1..Len(store) : store[i].finalLabel = <<"BENIGN">>})
      [] field = "high"   ->
            Cardinality({i \in 1..Len(store) : store[i].severity = <<"HIGH">>})

\* the handler up to its await: the four counts are issued
getStats ==
    /\ stats = <<>>
    /\ stats' = << [f \in StatsFields |-> <<>>] >>
    /\ last' = Answer("getStats", 0, "", 0)
    /\ UNCHANGED <<monitorProcess, children, requests, settingsStore, clock,
                   detections>>

\* the database runs one of the counts
getStatsCount(field) ==
    /\ stats # <<>>
    /\ stats[1][field] = <<>>
    /\ stats' = << [stats[1] EXCEPT ![field] =
                       <<StatsCount(field, detections)>>] >>
    /\ last' = Answer("countDocuments", 0, field, 0)
    /\ UNCHANGED <<monitorProcess, children, requests, settingsStore, clock,
                   detections>>

\* the handler after Promise.all: res.json({ total, attack, benign, high })
getStatsResume ==
    /\ stats # <<>>
    /\ \A f \in StatsFields : stats[1][f] # <<>>
    /\ last' = [Answer("getStats", 200, "", 0)
                   EXCEPT !.body = [f \in StatsFields |-> stats[1][f][1]]]
    /\ stats' = <<>>
    /\ UNCHANGED <<monitorProcess, children, requests, settingsStore, clock,
                   detections>>

\* the reports POST /detections receives while the cards are read
StatsBodies ==
    { AttackReport,
      [AttackReport EXCEPT !.finalLabel = <<"BENIGN">>,
                           !.hybridLabel = <<"BENIGN">>,
                           !.severity = <<"BENIGN">>],
      [AttackReport EXCEPT !.finalLabel = <<>>] }

NextStats ==
    \/ \E body \in StatsBodies :
           Len(detections) < MaxCounted /\ createDetection(body)
    \/ getStats
    \/ \E field \in StatsFields : getStatsCount(field)
    \/ getStatsResume

SpecStats == InitAnalytics /\ [][NextStats]_vars

\* C30: the counts of a stats answer are those of one state of the event
\* store (the store only grows, so of one of its prefixes), and so
\* total = attack + benign in every answer.
C30_StatsFromOneState ==
    (last.op = "getStats" /\ last.code = 200) =>
        /\ last.body["total"] = last.body["attack"] + last.body["benign"]
        /\ \E k \in 0..Len(detections) :
              \A f \in StatsFields :
                  last.body[f] = StatsCount(f, SubSeq(detections, 1, k))

====
